---- MODULE Spec2Model ----
(***************************************************************************)
(* Schema-driven validation of rows before a BigQuery load.                *)
(*   src/schema_val.py    parse_data, validate_data, validate_type and the *)
(*                        module-level script that runs them               *)
(*   src/df_bq_ingest.py  the Beam pipeline: SchemaValidation (parse,      *)
(*                        validate, yield) and FormatToBqRow               *)
(* Python values are records [k, t, n]: k is the Python type, t the text   *)
(* of a str (the printed text of a float or of a composite), n the integer *)
(* payload (for a float, its integer part).                                *)
(* Library calls (int, float, str, strptime, re.match, fromisoformat,      *)
(* ast.literal_eval) are operators that return "ok" or the name of the     *)
(* exception they raise, so that every try/except of the source is a       *)
(* comparison against the set of exception names it catches.               *)
(***************************************************************************)
EXTENDS Integers, Sequences, FiniteSets, TLC

VARIABLES pc, schema, data, parsed_data, result,
          log, inflight, emitted, loaded,
          value, field_type, verdict

vars == <<pc, schema, data, parsed_data, result,
          log, inflight, emitted, loaded,
          value, field_type, verdict>>

\* ---------------------------------------------------------------- bounds
MaxCols == 2
MaxRowLen == 2
MaxRows == 2
MaxElems == 2

\* ---------------------------------------------------------------- values
PyNone == [k |-> "None", t |-> "", n |-> 0]
PyInt(i) == [k |-> "int", t |-> "", n |-> i]
PyFloat(i, text) == [k |-> "float", t |-> text, n |-> i]
PyBool(b) == [k |-> "bool", t |-> "", n |-> IF b THEN 1 ELSE 0]
PyStr(s) == [k |-> "str", t |-> s, n |-> 0]
PyList(s) == [k |-> "list", t |-> s, n |-> 0]
PyDict(s) == [k |-> "dict", t |-> s, n |-> 0]

Inf == PyFloat(0, "inf")

\* Lexical form of the sample texts: what the parsers of the library see.
\*   shape  the grammar the text belongs to
\*   sep    separator between date and time ("T" or " ")
\*   frac   fractional seconds present
\*   zone   "none", "Z", "offset" (+HH:MM), "name" (UTC), "badname"
\*   valid  every calendar / clock field is in range
Form(shape, sep, frac, zone, valid) ==
    [shape |-> shape, sep |-> sep, frac |-> frac, zone |-> zone, valid |-> valid]

Plain(shape) == Form(shape, "", FALSE, "none", TRUE)

Texts ==
    { "thirty", "yes", "true", "TRUE", "false", "0", "1", "28", "5000.5",
      "1e999", "[1,2", "['a']", "{'f': 'v'}", "{[1]: 2}", "None", "True",
      "2023-07-01", "2023-02-30", "08:15:30", "not-a-time",
      "2023-07-01T08:15:30Z", "2023-07-02T10:20:45+02:00",
      "2023-07-01T08:15:30.123456Z", "2023-07-01T08:15:30",
      "2023-13-01T08:15:30Z",
      "2023-07-10 02:15:25.500000 UTC", "2023-07-10 02:15:25 UTC",
      "2023-07-11 01:22:55.250000", "2023-07-11 01:22:55",
      "2023-07-10 02:15:25 XYZ", "2023-02-30 01:22:55" }

Lex(s) ==
    CASE s \in {"0", "1", "28"} -> Plain("int")
      [] s \in {"5000.5", "1e999"} -> Plain("float")
      [] s = "2023-07-01" -> Plain("date")
      [] s = "2023-02-30" -> Form("date", "", FALSE, "none", FALSE)
      [] s = "08:15:30" -> Plain("time")
      [] s = "2023-07-01T08:15:30Z" -> Form("ts", "T", FALSE, "Z", TRUE)
      [] s = "2023-07-02T10:20:45+02:00" -> Form("ts", "T", FALSE, "offset", TRUE)
      [] s = "2023-07-01T08:15:30.123456Z" -> Form("ts", "T", TRUE, "Z", TRUE)
      [] s = "2023-07-01T08:15:30" -> Form("ts", "T", FALSE, "none", TRUE)
      [] s = "2023-13-01T08:15:30Z" -> Form("ts", "T", FALSE, "Z", FALSE)
      [] s = "2023-07-10 02:15:25.500000 UTC" -> Form("ts", " ", TRUE, "name", TRUE)
      [] s = "2023-07-10 02:15:25 UTC" -> Form("ts", " ", FALSE, "name", TRUE)
      [] s = "2023-07-11 01:22:55.250000" -> Form("ts", " ", TRUE, "none", TRUE)
      [] s = "2023-07-11 01:22:55" -> Form("ts", " ", FALSE, "none", TRUE)
      [] s = "2023-07-10 02:15:25 XYZ" -> Form("ts", " ", FALSE, "badname", TRUE)
      [] s = "2023-02-30 01:22:55" -> Form("ts", " ", FALSE, "none", FALSE)
      [] OTHER -> Plain("other")

\* str.lower() on the sample texts
Lower(s) ==
    CASE s = "TRUE" -> "true"
      [] s = "True" -> "true"
      [] s = "None" -> "none"
      [] OTHER -> s

\* str(value): the text Python prints for the value
IntText(i) ==
    CASE i = 0 -> "0"
      [] i = 1 -> "1"
      [] i = 28 -> "28"
      [] i = 30 -> "30"
      [] OTHER -> "int"

StrText(v) ==
    CASE v.k = "str" -> v.t
      [] v.k = "int" -> IntText(v.n)
      [] v.k = "bool" -> IF v.n = 1 THEN "True" ELSE "False"
      [] v.k = "None" -> "None"
      [] OTHER -> v.t

\* ------------------------------------------------- library calls: outcome
\* str(value) never raises for the values of the model
StrOf(v) == "ok"

\* int(value): numbers truncate, infinity overflows, a str must be a decimal
\* integer literal, None and composites are a TypeError
IntOf(v) ==
    CASE v.k \in {"int", "bool"} -> "ok"
      [] v.k = "float" -> IF v.t = "inf" THEN "OverflowError" ELSE "ok"
      [] v.k = "str" -> IF Lex(v.t).shape = "int" THEN "ok" ELSE "ValueError"
      [] OTHER -> "TypeError"

\* float(value)
FloatOf(v) ==
    CASE v.k \in {"int", "bool", "float"} -> "ok"
      [] v.k = "str" -> IF Lex(v.t).shape \in {"int", "float"} THEN "ok" ELSE "ValueError"
      [] OTHER -> "TypeError"

\* strptime formats used by the source, by what they require of the text
FmtDate == Form("date", "", FALSE, "none", TRUE)
FmtTime == Form("time", "", FALSE, "none", TRUE)
FmtDateTime == Form("ts", " ", FALSE, "none", TRUE)
FmtFracZone == Form("ts", " ", TRUE, "name", TRUE)
FmtZone == Form("ts", " ", FALSE, "name", TRUE)
FmtFrac == Form("ts", " ", TRUE, "none", TRUE)

\* datetime.strptime(value, fmt): a non-str argument is a TypeError, a text
\* that is not exactly of the format (or has a field out of range) a ValueError
Strptime(v, fmt) ==
    IF v.k # "str" THEN "TypeError"
    ELSE IF Lex(v.t) = fmt THEN "ok" ELSE "ValueError"

\* re.match(ISO pattern, value): "TypeError" for a non-str, else whether the
\* text has the shape YYYY-MM-DDTHH:MM:SS[.f][Z|+HH:MM] (digits unchecked)
IsoMatch(v) ==
    IF v.k # "str" THEN "TypeError"
    ELSE LET f == Lex(v.t)
         IN IF f.shape = "ts" /\ f.sep = "T" /\ f.zone \in {"none", "Z", "offset"}
            THEN "match" ELSE "nomatch"

\* datetime.fromisoformat(value.replace('Z', '+00:00')) on a text that matched
FromIso(v) == IF Lex(v.t).valid THEN "ok" ELSE "ValueError"

\* ------------------------------------------------------------ type tags
Textual == {"STRING", "BYTES", "JSON", "GEOGRAPHY", "INTERVAL"}
IntegerClass == {"INT64", "INTEGER", "INT", "SMALLINT", "BIGINT", "TINYINT", "BYTEINT"}
DecimalClass == {"NUMERIC", "DECIMAL", "BIGNUMERIC", "BIGDECIMAL", "FLOAT64"}
Recognized ==
    Textual \cup IntegerClass \cup DecimalClass
        \cup {"BOOL", "DATE", "DATETIME", "TIME", "TIMESTAMP"}
Unrecognized == {"ARRAY", "STRUCT", "RANGE"}
TypeTags == Recognized \cup Unrecognized

\* What the outer `except (ValueError, TypeError)` of validate_type catches
OuterCaught == {"ValueError", "TypeError"}
\* What each inner `except ValueError` of the TIMESTAMP chain catches
InnerCaught == {"ValueError"}

\* The body of the first try of the TIMESTAMP branch: the ISO pattern decides
\* between fromisoformat and the fraction-and-zone format
TimestampFirst(v) ==
    LET m == IsoMatch(v)
    IN CASE m = "TypeError" -> "TypeError"
         [] m = "match" -> FromIso(v)
         [] OTHER -> Strptime(v, FmtFracZone)

\* Variant: the chain ends after the fraction format, without the plain one
TimestampChain_NoPlain(v) ==
    LET a == TimestampFirst(v)
    IN IF a \notin InnerCaught THEN a
       ELSE LET b == Strptime(v, FmtZone)
            IN IF b \notin InnerCaught THEN b
               ELSE Strptime(v, FmtFrac)

\* The nested try/except chain of the TIMESTAMP branch: an exception an
\* inner handler catches starts the next format; the last format has no
\* handler of its own
TimestampChain(v) ==
    LET a == TimestampFirst(v)
    IN IF a \notin InnerCaught THEN a
       ELSE LET b == Strptime(v, FmtZone)
            IN IF b \notin InnerCaught THEN b
               ELSE LET c == Strptime(v, FmtFrac)
                    IN IF c \notin InnerCaught THEN c
                       ELSE Strptime(v, FmtDateTime)

BoolTexts == {"true", "false", "1", "0"}

\* The if/elif ladder shared by both validate_type; `other` is the outcome
\* of the final else. "return False" is the early return of the ladder,
\* "ok" falls through to `return True`, anything else is a raised exception.
TypeLadder(v, ft, other) ==
    CASE ft \in Textual -> StrOf(v)
      [] ft \in IntegerClass -> IntOf(v)
      [] ft \in DecimalClass -> FloatOf(v)
      [] ft = "BOOL" ->
            IF Lower(StrText(v)) \notin BoolTexts THEN "return False" ELSE "ok"
      [] ft = "DATE" -> Strptime(v, FmtDate)
      [] ft = "DATETIME" -> Strptime(v, FmtDateTime)
      [] ft = "TIME" -> Strptime(v, FmtTime)
      [] ft = "TIMESTAMP" -> TimestampChain(v)
      [] OTHER -> other

\* try: ladder; return True / except (ValueError, TypeError): return False.
\* The result is "True", "False" or the name of an exception that escapes.
TryLadder(out) ==
    CASE out = "ok" -> "True"
      [] out = "return False" -> "False"
      [] out \in OuterCaught -> "False"
      [] OTHER -> out

\* schema_val.validate_type: the final else returns False
validate_type(v, ft) == TryLadder(TypeLadder(v, ft, "return False"))

\* SchemaValidation.validate_type: the final else is str(value)
SchemaValidation_validate_type(v, ft) == TryLadder(TypeLadder(v, ft, StrOf(v)))

\* ------------------------------------------------------------ parse_data
\* ast.literal_eval(item): [exc, val].  A non-str item is a malformed node
\* (ValueError); a text is decoded by the literal grammar of Python.
Lit(v) == [exc |-> "ok", val |-> v]
LitFail(e) == [exc |-> e, val |-> PyNone]

literal_eval(item) ==
    IF item.k # "str" THEN LitFail("ValueError")
    ELSE LET s == item.t
         IN CASE s = "0" -> Lit(PyInt(0))
              [] s = "1" -> Lit(PyInt(1))
              [] s = "28" -> Lit(PyInt(28))
              [] s = "5000.5" -> Lit(PyFloat(5000, "5000.5"))
              [] s = "1e999" -> Lit(Inf)
              [] s = "None" -> Lit(PyNone)
              [] s = "True" -> Lit(PyBool(TRUE))
              [] s = "['a']" -> Lit(PyList("['a']"))
              [] s = "{'f': 'v'}" -> Lit(PyDict("{'f': 'v'}"))
              [] s = "{[1]: 2}" -> LitFail("TypeError")
              [] s \in {"thirty", "yes", "true", "TRUE", "false", "not-a-time"} ->
                    LitFail("ValueError")
              [] OTHER -> LitFail("SyntaxError")

\* What `except (ValueError, SyntaxError)` of parse_data catches
ParseCaught == {"ValueError", "SyntaxError"}

\* One iteration of the inner loop: [exc, val], exc # "ok" when the
\* exception of literal_eval is not caught
parse_item(item) ==
    LET r == literal_eval(item)
    IN IF r.exc = "ok" THEN r
       ELSE IF r.exc \in ParseCaught THEN Lit(item)
       ELSE r

\* Positions of rows, in the order the loops visit them
Before(p, q) == p[1] < q[1] \/ (p[1] = q[1] /\ p[2] < q[2])

\* parse_data(data): [exc, val]; the first item (in loop order) whose
\* exception escapes ends the call
parse_data(d) ==
    LET bad == {p \in {<<i, j>> : i \in DOMAIN d, j \in 1..MaxRowLen + 1} :
                   /\ p[2] \in DOMAIN d[p[1]]
                   /\ parse_item(d[p[1]][p[2]]).exc # "ok"}
    IN IF bad = {}
       THEN [exc |-> "ok",
             val |-> [i \in DOMAIN d |->
                        [j \in DOMAIN d[i] |-> parse_item(d[i][j]).val]]]
       ELSE LET p == CHOOSE q \in bad : \A r \in bad : r = q \/ Before(q, r)
            IN [exc |-> parse_item(d[p[1]][p[2]]).exc, val |-> <<>>]

\* --------------------------------------------------------- validate_data
\* Variant: a descriptor without 'mode' counts as REQUIRED
FieldMode_DefaultRequired(field) ==
    IF "mode" \in DOMAIN field THEN field.mode ELSE "REQUIRED"

\* field.get('mode', 'NULLABLE')
FieldMode(field) == IF "mode" \in DOMAIN field THEN field.mode ELSE "NULLABLE"

\* One evaluation of a field-level test: op is "required" for the
\* REQUIRED/None test and "type" for a call of validate_type
Ev(i, j, op) == [row |-> i, pos |-> j, op |-> op]

Outcome(status, kind, i, j, trace) ==
    [status |-> status, kind |-> kind, row |-> i, pos |-> j, trace |-> trace]

\* The validate_type each validate_data calls
TypeCheck(impl, v, ft) ==
    IF impl = "schema_val" THEN validate_type(v, ft)
    ELSE SchemaValidation_validate_type(v, ft)

\* Variant: the REQUIRED/None test is missing, None is passed over
RECURSIVE CheckFields_NoRequired(_, _, _, _, _, _)
CheckFields_NoRequired(impl, row, sch, i, j, trace) ==
    IF j > Len(row) \/ j > Len(sch) THEN Outcome("valid", "", 0, 0, trace)
    ELSE LET v == row[j]
             field == sch[j]
             t1 == Append(trace, Ev(i, j, "required"))
         IN IF v # PyNone
            THEN LET r == TypeCheck(impl, v, field.type)
                     t2 == Append(t1, Ev(i, j, "type"))
                 IN CASE r = "True" -> CheckFields_NoRequired(impl, row, sch, i, j + 1, t2)
                      [] r = "False" -> Outcome("violation", "TypeMismatch", i, j, t2)
                      [] OTHER -> Outcome("raised", r, i, j, t2)
            ELSE CheckFields_NoRequired(impl, row, sch, i, j + 1, t1)

\* for value, field in zip(row, schema): from position j on
RECURSIVE CheckFields(_, _, _, _, _, _)
CheckFields(impl, row, sch, i, j, trace) ==
    IF j > Len(row) \/ j > Len(sch) THEN Outcome("valid", "", 0, 0, trace)
    ELSE LET v == row[j]
             field == sch[j]
             t1 == Append(trace, Ev(i, j, "required"))
         IN IF FieldMode(field) = "REQUIRED" /\ v = PyNone
            THEN Outcome("violation", "MissingRequiredField", i, j, t1)
            ELSE IF v # PyNone
            THEN LET r == TypeCheck(impl, v, field.type)
                     t2 == Append(t1, Ev(i, j, "type"))
                 IN CASE r = "True" -> CheckFields(impl, row, sch, i, j + 1, t2)
                      [] r = "False" -> Outcome("violation", "TypeMismatch", i, j, t2)
                      [] OTHER -> Outcome("raised", r, i, j, t2)
            ELSE CheckFields(impl, row, sch, i, j + 1, t1)

\* Variant: no arity test, the zip of row and schema is checked as it is
RECURSIVE CheckRows_NoArity(_, _, _, _, _)
CheckRows_NoArity(impl, d, sch, i, trace) ==
    IF i > Len(d) THEN Outcome("valid", "", 0, 0, trace)
    ELSE LET r == CheckFields(impl, d[i], sch, i, 1, trace)
         IN IF r.status = "valid" THEN CheckRows_NoArity(impl, d, sch, i + 1, r.trace)
            ELSE r

\* Variant: after a failing row the later rows are still checked; the first
\* failure is the one reported
RECURSIVE CheckRows_KeepGoing(_, _, _, _, _)
CheckRows_KeepGoing(impl, d, sch, i, trace) ==
    IF i > Len(d) THEN Outcome("valid", "", 0, 0, trace)
    ELSE LET r == IF Len(d[i]) # Len(sch)
                  THEN Outcome("violation", "ArityMismatch", i, 0, trace)
                  ELSE CheckFields(impl, d[i], sch, i, 1, trace)
             rest == CheckRows_KeepGoing(impl, d, sch, i + 1, r.trace)
         IN IF r.status = "valid" THEN rest
            ELSE [r EXCEPT !.trace = rest.trace]

\* for row in data: from row i on
RECURSIVE CheckRows(_, _, _, _, _)
CheckRows(impl, d, sch, i, trace) ==
    IF i > Len(d) THEN Outcome("valid", "", 0, 0, trace)
    ELSE IF Len(d[i]) # Len(sch)
    THEN Outcome("violation", "ArityMismatch", i, 0, trace)
    ELSE LET r == CheckFields(impl, d[i], sch, i, 1, trace)
         IN IF r.status = "valid" THEN CheckRows(impl, d, sch, i + 1, r.trace)
            ELSE r

\* schema_val.validate_data
validate_data(d, sch) == CheckRows("schema_val", d, sch, 1, <<>>)

\* SchemaValidation.validate_data
SchemaValidation_validate_data(d, sch) == CheckRows("df_bq_ingest", d, sch, 1, <<>>)

\* ---------------------------------------------------------------- inputs
\* Sample values handed to validate_type
Values ==
    { PyNone, PyInt(0), PyInt(1), PyInt(28), PyFloat(30, "30.5"),
      PyFloat(28, "28.0"), Inf, PyBool(TRUE), PyBool(FALSE),
      PyList("['a']"), PyDict("{'f': 'v'}") }
        \cup {PyStr(s) : s \in Texts}

\* Raw items of the rows given to the script and to the pipeline
RowTokens == {PyNone, PyStr("28")}
\* ... and of the one element run_pipeline creates
CreateTokens == RowTokens \cup {PyStr("{[1]: 2}")}

SeqsUpTo(S, n) == UNION {[1..m -> S] : m \in 0..n}

RowsOf(S) == SeqsUpTo(S, MaxRowLen)
DataOf(S) == SeqsUpTo(RowsOf(S), MaxRows) \ {<<>>}

\* Field descriptors: the 'mode' key may be missing
ColName(j) == CASE j = 1 -> "c1" [] j = 2 -> "c2" [] j = 3 -> "c3" [] OTHER -> "c4"
FieldKinds ==
    { <<"INT64", "REQUIRED">>, <<"ARRAY", "REQUIRED">>,
      <<"DATE", "NULLABLE">>, <<"ARRAY", "absent">> }
Field(j, fk) ==
    IF fk[2] = "absent" THEN [name |-> ColName(j), type |-> fk[1]]
    ELSE [name |-> ColName(j), type |-> fk[1], mode |-> fk[2]]
Schemas ==
    UNION {{[j \in 1..m |-> Field(j, f[j])] : f \in [1..m -> FieldKinds]} :
              m \in 1..MaxCols}

\* The schema literal of run_pipeline
pipeline_schema ==
    << [name |-> "name", type |-> "STRING", mode |-> "REQUIRED"],
       [name |-> "age", type |-> "INT64", mode |-> "REQUIRED"],
       [name |-> "salary", type |-> "FLOAT64", mode |-> "NULLABLE"],
       [name |-> "is_active", type |-> "BOOL", mode |-> "REQUIRED"],
       [name |-> "created_at", type |-> "TIMESTAMP", mode |-> "REQUIRED"],
       [name |-> "join_date", type |-> "DATE", mode |-> "REQUIRED"] >>

\* Schemas a SchemaValidation is constructed with: runs of the literal
PipeSchemas ==
    {SubSeq(pipeline_schema, w[1], w[1] + w[2] - 1) :
        w \in {x \in (1..Len(pipeline_schema)) \X (1..MaxCols) :
                  x[1] + x[2] - 1 <= Len(pipeline_schema)}}

Elements == {[data |-> d] : d \in DataOf(RowTokens)}

\* ----------------------------------------------------------------- state
NoResult == Outcome("none", "", 0, 0, <<>>)

ScriptIdle ==
    /\ pc = "start"
    /\ parsed_data = <<>>
    /\ result = NoResult

PipeIdle ==
    /\ log = <<>>
    /\ inflight = <<>>
    /\ emitted = <<>>
    /\ loaded = 0

TypeIdle == verdict = [standalone |-> "unset", pipeline |-> "unset"]

\* The script of schema_val.py, on a schema and data of the bounded sets
Init ==
    /\ schema \in Schemas
    /\ data \in DataOf(RowTokens)
    /\ ScriptIdle
    /\ PipeIdle
    /\ value = PyNone /\ field_type = "STRING" /\ TypeIdle

\* parsed_data1 = parse_data(data): an escaping exception ends the script
ParseData ==
    /\ pc = "start"
    /\ LET r == parse_data(data)
       IN IF r.exc = "ok"
          THEN pc' = "parsed" /\ parsed_data' = r.val /\ result' = result
          ELSE /\ pc' = "crashed"
               /\ parsed_data' = parsed_data
               /\ result' = Outcome("raised", r.exc, 0, 0, <<>>)
    /\ UNCHANGED <<schema, data, log, inflight, emitted, loaded,
                   value, field_type, verdict>>

\* try: validate_data(parsed_data1, schema) / except SchemaValidationException
ValidateData ==
    /\ pc = "parsed"
    /\ result' = validate_data(parsed_data, schema)
    /\ pc' = IF result'.status = "raised" THEN "crashed" ELSE "done"
    /\ UNCHANGED <<schema, data, parsed_data, log, inflight,
                   emitted, loaded, value, field_type, verdict>>

Next == ParseData \/ ValidateData

Spec == Init /\ [][Next]_vars

\* parse_data alone, on rows of every sample value
InitParse ==
    /\ schema \in {<<Field(1, <<"STRING", "absent">>)>>}
    /\ data \in {<<row>> : row \in SeqsUpTo(Values, MaxRowLen)}
    /\ ScriptIdle
    /\ PipeIdle
    /\ value = PyNone /\ field_type = "STRING" /\ TypeIdle

SpecParse == InitParse /\ [][ParseData]_vars

\* ------------------------------------------------- validate_type, alone
InitType ==
    /\ value \in Values
    /\ field_type \in TypeTags
    /\ TypeIdle
    /\ schema = <<>> /\ data = <<>>
    /\ ScriptIdle
    /\ PipeIdle

CallValidateType ==
    /\ verdict.standalone = "unset"
    /\ verdict' = [verdict EXCEPT !.standalone = validate_type(value, field_type)]
    /\ UNCHANGED <<pc, schema, data, parsed_data, result, log,
                   inflight, emitted, loaded, value, field_type>>

CallPipelineValidateType ==
    /\ verdict.pipeline = "unset"
    /\ verdict' = [verdict EXCEPT
                      !.pipeline = SchemaValidation_validate_type(value, field_type)]
    /\ UNCHANGED <<pc, schema, data, parsed_data, result, log,
                   inflight, emitted, loaded, value, field_type>>

NextType == CallValidateType \/ CallPipelineValidateType

SpecType == InitType /\ [][NextType]_vars

\* ------------------------------------------------------------- pipeline
\* {col_name: value for col_name, value in zip(column_names, row)}
column_names(sch) == [j \in DOMAIN sch |-> sch[j].name]

Zipped(names, row) == {j \in DOMAIN names : j \in DOMAIN row}

dict_row(names, row) ==
    [nm \in {names[j] : j \in Zipped(names, row)} |->
        row[CHOOSE j \in Zipped(names, row) :
               /\ names[j] = nm
               /\ \A h \in Zipped(names, row) : names[h] = nm => h <= j]]

\* A record on its way to the warehouse write, with the element and row
\* it was made from
Emitted(e, i, names) ==
    [rec |-> dict_row(names, e.parsed_data[i]), src |-> e.data, row |-> i]

InitPipe ==
    /\ schema \in PipeSchemas
    /\ PipeIdle
    /\ data = <<>>
    /\ ScriptIdle
    /\ value = PyNone /\ field_type = "STRING" /\ TypeIdle

\* Whether SchemaValidation.process takes another element: the pipeline has
\* not failed, and what the last element yielded has gone through the
\* following steps (the steps of run_pipeline are consecutive transforms of
\* one pipeline: an output is pushed downstream before the next input)
Ready ==
    /\ \A k \in DOMAIN log : log[k] # "crashed"
    /\ Len(log) < MaxElems
    /\ inflight = <<>>
    /\ emitted = <<>>

\* Variant: the element is marked and yielded after the try statement, also
\* when the violation was caught
SchemaValidation_process_YieldAlways(e) ==
    /\ Ready
    /\ LET p == parse_data(e.data)
           r == SchemaValidation_validate_data(p.val, schema)
       IN IF p.exc # "ok"
          THEN log' = Append(log, "crashed") /\ inflight' = inflight
          ELSE CASE r.status \in {"valid", "violation"} ->
                      /\ log' = Append(log, IF r.status = "valid" THEN "valid"
                                                                  ELSE "rejected")
                      /\ inflight' = Append(inflight,
                                        [data |-> e.data, parsed_data |-> p.val])
                 [] OTHER ->
                      log' = Append(log, "crashed") /\ inflight' = inflight
    /\ UNCHANGED <<pc, schema, data, parsed_data, result, emitted, loaded,
                   value, field_type, verdict>>

\* SchemaValidation.process(element): parse, validate, set 'parsed_data' and
\* yield; a SchemaValidationException is caught and nothing is yielded; any
\* other exception escapes the DoFn and fails the pipeline.  log is what the
\* calls leave behind: the line printed, or the failure.
SchemaValidation_process(e) ==
    /\ Ready
    /\ LET p == parse_data(e.data)
           r == SchemaValidation_validate_data(p.val, schema)
       IN IF p.exc # "ok"
          THEN log' = Append(log, "crashed") /\ inflight' = inflight
          ELSE CASE r.status = "valid" ->
                      /\ log' = Append(log, "valid")
                      /\ inflight' = Append(inflight,
                                        [data |-> e.data, parsed_data |-> p.val])
                 [] r.status = "violation" ->
                      log' = Append(log, "rejected") /\ inflight' = inflight
                 [] OTHER ->
                      log' = Append(log, "crashed") /\ inflight' = inflight
    /\ UNCHANGED <<pc, schema, data, parsed_data, result, emitted, loaded,
                   value, field_type, verdict>>

\* FormatToBqRow.process(element): one record per row of 'parsed_data'; the
\* filter `row is not None` passes every record on toward the write
FormatToBqRow_process ==
    /\ inflight # <<>>
    /\ LET e == Head(inflight)
       IN emitted' = emitted \o
              [i \in DOMAIN e.parsed_data |-> Emitted(e, i, column_names(schema))]
    /\ inflight' = Tail(inflight)
    /\ UNCHANGED <<pc, schema, data, parsed_data, result, log, loaded,
                   value, field_type, verdict>>

\* WriteToBigQuery with WRITE_APPEND: the records emitted are appended to
\* the table, of which the model keeps the number of rows
WriteToBigQuery ==
    /\ emitted # <<>>
    /\ loaded' = loaded + Len(emitted)
    /\ emitted' = <<>>
    /\ UNCHANGED <<pc, schema, data, parsed_data, result, log, inflight,
                   value, field_type, verdict>>

NextPipe ==
    \/ \E e \in Elements : SchemaValidation_process(e)
    \/ FormatToBqRow_process
    \/ WriteToBigQuery

SpecPipe == InitPipe /\ [][NextPipe]_vars

\* run_pipeline as written: beam.Create([data3]) hands the one element of
\* the module to the steps
InitCreate ==
    /\ schema \in PipeSchemas
    /\ data \in DataOf(CreateTokens)
    /\ PipeIdle
    /\ ScriptIdle
    /\ value = PyNone /\ field_type = "STRING" /\ TypeIdle

NextCreate ==
    \/ log = <<>> /\ SchemaValidation_process([data |-> data])
    \/ FormatToBqRow_process
    \/ WriteToBigQuery

SpecCreate == InitCreate /\ [][NextCreate]_vars

\* ================================================================ claims
\* Conformance stated per field and per row, without the loops
IsRequired(field) == "mode" \in DOMAIN field /\ field.mode = "REQUIRED"

FieldPasses(impl, v, field) ==
    /\ IsRequired(field) => v # PyNone
    /\ v # PyNone => TypeCheck(impl, v, field.type) = "True"

RowConforms(impl, row, sch) ==
    /\ Len(row) = Len(sch)
    /\ \A j \in DOMAIN row : FieldPasses(impl, row[j], sch[j])

\* Validation gets to row i: every row before it conforms
Reached(impl, d, sch, i) == \A h \in 1..(i - 1) : RowConforms(impl, d[h], sch)

Events(r) == {r.trace[k] : k \in DOMAIN r.trace}

\* The outcome of validate_data of either file on the parsed rows of the state
Impls == {"schema_val", "df_bq_ingest"}
ResultOf(impl) ==
    IF impl = "schema_val" THEN result
    ELSE SchemaValidation_validate_data(parsed_data, schema)

Validated == pc = "done"

\* C1: a row whose length differs from the schema's makes validate_data fail,
\* with the arity violation when validation gets to that row, and no
\* REQUIRED/null test and no validate_type call is made for any position of
\* that row.
C1_ArityNoFieldChecks ==
    Validated =>
        \A impl \in Impls :
            LET r == ResultOf(impl)
            IN \A i \in DOMAIN parsed_data :
                   Len(parsed_data[i]) # Len(schema) =>
                       /\ r.status = "violation"
                       /\ r.row <= i
                       /\ Reached(impl, parsed_data, schema, i) =>
                             r.row = i /\ r.kind = "ArityMismatch"
                       /\ \A ev \in Events(r) : ev.row # i

\* Witness of C1: the first row was checked field by field and the second
\* row, of another length, ended the call with the arity violation.
C1_Witness ==
    /\ Validated
    /\ Len(parsed_data) = 2
    /\ Len(parsed_data[2]) # Len(schema)
    /\ result.kind = "ArityMismatch" /\ result.row = 2
    /\ result.trace # <<>>

\* A REQUIRED field holds None at its position of a row of schema length
RequiredNull(d, sch, i, j) ==
    /\ Len(d[i]) = Len(sch)
    /\ IsRequired(sch[j])
    /\ d[i][j] = PyNone

\* C2 as stated: whenever a REQUIRED field holds None in a row that is
\* validated, the row fails with MissingRequiredField for that very field.
C2_RequiredNullAlwaysMissing ==
    Validated =>
        \A i \in DOMAIN parsed_data : \A j \in DOMAIN schema :
            ( /\ RequiredNull(parsed_data, schema, i, j)
              /\ Reached("schema_val", parsed_data, schema, i) ) =>
                /\ result.status = "violation"
                /\ result.kind = "MissingRequiredField"
                /\ result.row = i /\ result.pos = j

\* C2 amended: a validated row of schema length with None at a REQUIRED
\* position always fails, at that position or before it; when every earlier
\* position of the row passes its own checks the violation is
\* MissingRequiredField for that field, whatever its declared type.
C2_RequiredNullFails ==
    Validated =>
        \A impl \in Impls :
            LET r == ResultOf(impl)
            IN \A i \in DOMAIN parsed_data : \A j \in DOMAIN schema :
                   ( /\ RequiredNull(parsed_data, schema, i, j)
                     /\ Reached(impl, parsed_data, schema, i) ) =>
                       /\ r.status = "violation"
                       /\ r.row = i
                       /\ r.pos <= j
                       /\ (\A h \in 1..(j - 1) :
                              FieldPasses(impl, parsed_data[i][h], schema[h])) =>
                             r.kind = "MissingRequiredField" /\ r.pos = j

\* Witness of C2: None at the second position, REQUIRED and of a type tag no
\* coercion class knows, reported as missing after the first position passed.
C2_Witness ==
    /\ Validated
    /\ Len(schema) = 2
    /\ schema[2].type = "ARRAY"
    /\ RequiredNull(parsed_data, schema, 1, 2)
    /\ result.kind = "MissingRequiredField" /\ result.row = 1 /\ result.pos = 2

\* None at a position whose field is NULLABLE or has no 'mode'
NullableNull(d, sch, i, j) ==
    /\ Len(d[i]) = Len(sch)
    /\ ("mode" \notin DOMAIN sch[j] \/ sch[j].mode = "NULLABLE")
    /\ d[i][j] = PyNone

\* C3: None at a NULLABLE position, or at one whose descriptor has no
\* 'mode', is never the reported violation, validate_type is not called for
\* it, and once its REQUIRED/null test has run the next position is tested.
C3_NullablePassThrough ==
    Validated =>
        \A impl \in Impls :
            LET r == ResultOf(impl)
                evs == Events(r)
            IN \A i \in DOMAIN parsed_data : \A j \in DOMAIN schema :
                   NullableNull(parsed_data, schema, i, j) =>
                       /\ ~(r.status # "valid" /\ r.row = i /\ r.pos = j)
                       /\ Ev(i, j, "type") \notin evs
                       /\ (Ev(i, j, "required") \in evs /\ j < Len(schema)) =>
                             Ev(i, j + 1, "required") \in evs
                       /\ (Reached(impl, parsed_data, schema, i)
                             /\ \A h \in 1..(j - 1) :
                                   FieldPasses(impl, parsed_data[i][h], schema[h])) =>
                             Ev(i, j, "required") \in evs

\* Witness of C3: None under an unrecognized tag without 'mode' at the first
\* position; the second position was tested after it.
C3_Witness ==
    /\ Validated
    /\ Len(schema) = 2
    /\ schema[1].type = "ARRAY" /\ "mode" \notin DOMAIN schema[1]
    /\ NullableNull(parsed_data, schema, 1, 1)
    /\ Ev(1, 2, "required") \in Events(result)

\* C4 as stated: parse_data returns for every input, and an item whose
\* literal decoding fails is kept unchanged.
C4_ParseTotal ==
    /\ pc # "crashed"
    /\ pc = "parsed" =>
          \A i \in DOMAIN data : \A j \in DOMAIN data[i] :
              literal_eval(data[i][j]).exc # "ok" => parsed_data[i][j] = data[i][j]

\* C5 as stated: a non-null value under a type tag outside the recognized
\* classes is not coercible, for the validate_type of both files.
C5_UnrecognizedNotCoercible ==
    (value # PyNone /\ field_type \notin Recognized) =>
        /\ verdict.standalone \in {"unset", "False"}
        /\ verdict.pipeline \in {"unset", "False"}

Precedes(a, b) ==
    \/ a.row < b.row
    \/ a.row = b.row /\ a.pos < b.pos
    \/ a.row = b.row /\ a.pos = b.pos /\ a.op = "required" /\ b.op = "type"

\* C6: field tests run in row and schema order, the REQUIRED/null test
\* before the type test of a position; the violation reported is that of the
\* first failing position of the first failing row, and no position after
\* it, in that row or in a later row, is tested.
C6_FirstFailureStops ==
    Validated =>
        \A impl \in Impls :
            LET r == ResultOf(impl)
                d == parsed_data
            IN /\ \A k \in 1..(Len(r.trace) - 1) : Precedes(r.trace[k], r.trace[k + 1])
               /\ \A ev \in Events(r) :
                     ev.op = "type" => Ev(ev.row, ev.pos, "required") \in Events(r)
               /\ r.status = "valid" =>
                     \A i \in DOMAIN d : RowConforms(impl, d[i], schema)
               /\ r.status = "violation" =>
                     /\ r.row \in DOMAIN d
                     /\ Reached(impl, d, schema, r.row)
                     /\ r.kind = "ArityMismatch" <=> Len(d[r.row]) # Len(schema)
                     /\ r.kind # "ArityMismatch" =>
                           /\ r.pos \in DOMAIN schema
                           /\ \A h \in 1..(r.pos - 1) :
                                 FieldPasses(impl, d[r.row][h], schema[h])
                           /\ ~FieldPasses(impl, d[r.row][r.pos], schema[r.pos])
                           /\ r.kind = "MissingRequiredField" <=>
                                 (IsRequired(schema[r.pos]) /\ d[r.row][r.pos] = PyNone)
                           /\ r.kind \in {"MissingRequiredField", "TypeMismatch"}
                     /\ \A ev \in Events(r) :
                           ev.row < r.row \/ (ev.row = r.row /\ ev.pos <= r.pos)

\* Witness of C6: the first position of the first row failed while its
\* second position would fail too and a second row was waiting.
C6_Witness ==
    /\ Validated
    /\ Len(parsed_data) = 2 /\ Len(schema) = 2 /\ Len(parsed_data[1]) = 2
    /\ result.status = "violation" /\ result.row = 1 /\ result.pos = 1
    /\ ~FieldPasses("schema_val", parsed_data[1][2], schema[2])
    /\ ~RowConforms("schema_val", parsed_data[2], schema)

\* A base-10 integer: an int (or bool), a float without fraction, or a str
\* that is a decimal integer literal
IsBase10Integer(v) ==
    \/ v.k \in {"int", "bool"}
    \/ v.k = "float" /\ v.t = "28.0"
    \/ v.k = "str" /\ Lex(v.t).shape = "int"

\* C7 as stated: under an integer type tag a non-null value is coercible
\* exactly when it is a base-10 integer.
C7_IntegerIffBase10 ==
    ( /\ field_type \in IntegerClass
      /\ value # PyNone
      /\ verdict.standalone # "unset" /\ verdict.pipeline # "unset" ) =>
        /\ verdict.standalone = "True" <=> IsBase10Integer(value)
        /\ verdict.pipeline = "True" <=> IsBase10Integer(value)

\* Rows of the element of run_pipeline that parse and conform to the schema
ConformingRows ==
    {i \in DOMAIN data :
        RowConforms("df_bq_ingest", parse_data(data).val[i], schema)}

\* C8 as stated: once the element has gone through the pipeline, every row
\* of it that conforms to the schema has been passed on and loaded,
\* whatever its other rows are.
C8_RowScoped ==
    ( /\ Len(log) = 1 /\ inflight = <<>> /\ emitted = <<>>
      /\ parse_data(data).exc = "ok" ) =>
        loaded >= Cardinality(ConformingRows)

\* The five timestamp dialects, each on its own
AcceptedByDialect(v) ==
    /\ v.k = "str"
    /\ \/ IsoMatch(v) = "match" /\ FromIso(v) = "ok"
       \/ Strptime(v, FmtFracZone) = "ok"
       \/ Strptime(v, FmtZone) = "ok"
       \/ Strptime(v, FmtFrac) = "ok"
       \/ Strptime(v, FmtDateTime) = "ok"

\* C9: validate_type(value, 'TIMESTAMP') returns True exactly when one of
\* the five dialects accepts the value and False otherwise; it never raises,
\* also for a value the ISO pattern matches and the ISO parse rejects, and
\* for a value that is not a str.
C9_TimestampChain ==
    (field_type = "TIMESTAMP" /\ verdict.standalone # "unset") =>
        verdict.standalone = IF AcceptedByDialect(value) THEN "True" ELSE "False"

\* Witness of C9: the ISO pattern matched, the ISO parse rejected month 13,
\* the chain ran out and the answer is False.
C9_Witness ==
    /\ field_type = "TIMESTAMP"
    /\ value = PyStr("2023-13-01T08:15:30Z")
    /\ IsoMatch(value) = "match" /\ FromIso(value) = "ValueError"
    /\ verdict.standalone = "False"

\* Every row of the element parses and conforms to the schema
AllRowsPass(src) ==
    LET p == parse_data(src)
    IN /\ p.exc = "ok"
       /\ \A i \in DOMAIN p.val : RowConforms("df_bq_ingest", p.val[i], schema)

\* C10: every record emitted toward the write is the keyed form of a row
\* of an element all of whose parsed rows pass validation, and only such
\* elements carry 'parsed_data' and are yielded to FormatToBqRow; after an
\* element that was rejected nothing is in flight.
C10_OnlyValidatedElements ==
    /\ \A k \in DOMAIN emitted :
          LET w == emitted[k]
          IN /\ AllRowsPass(w.src)
             /\ w.row \in DOMAIN w.src
             /\ DOMAIN w.rec = {schema[j].name : j \in DOMAIN schema}
             /\ \A j \in DOMAIN schema :
                   w.rec[schema[j].name] = parse_data(w.src).val[w.row][j]
    /\ \A k \in DOMAIN inflight :
          /\ AllRowsPass(inflight[k].data)
          /\ inflight[k].parsed_data = parse_data(inflight[k].data).val
    /\ (log # <<>> /\ log[Len(log)] # "valid") => (inflight = <<>> /\ emitted = <<>>)
    /\ loaded <= MaxRows * Cardinality({k \in DOMAIN log : log[k] = "valid"})

\* Witness of C10: after an element that was rejected, a two-row element
\* was accepted and its two records are on their way to the write.
C10_Witness ==
    /\ log = <<"rejected", "valid">>
    /\ inflight = <<>>
    /\ loaded = 0
    /\ Len(emitted) = 2
    /\ emitted[1].src = emitted[2].src
    /\ emitted[1].row = 1 /\ emitted[2].row = 2

====
